---- MODULE Spec2Model ----
(***************************************************************************)
(* A model of src/ex1.py: the noisy-channel spell checker (Spell_Checker)  *)
(* and its n-gram language model (Spell_Checker.Language_Model).           *)
(*                                                                         *)
(* Representation.  A Python str is a sequence of one-character strings;   *)
(* a token is such a sequence too (a word, or in character mode a single   *)
(* character).  The sentinels '<s>' and '</s>' are the one-element         *)
(* sequences <<"<s>">> and <<"</s>">>, which no normalized text contains.  *)
(* A dict / Counter / defaultdict is a function whose DOMAIN is its set of *)
(* keys, so the insertion of a key with an empty or zero value is visible. *)
(* A float that the program computes from counts is an exact rational      *)
(* [p, q, e] standing for (p / q) * (1e-8)^e.  A raised exception is a     *)
(* result [kind |-> "raise", exc |-> <name>]; whatever the call changed    *)
(* before raising stays changed.                                           *)
(***************************************************************************)
EXTENDS Integers, Sequences, FiniteSets, TLC

VARIABLES
    n,              \* Language_Model.n: the order of the model
    chars,          \* Language_Model.chars: character mode
    char_pair,      \* Language_Model.char_pair: Counter of adjacent characters
    char_counts,    \* Language_Model.char_counts: Counter of characters
    model_dict,     \* Language_Model.model_dict: defaultdict(int) of n-grams
    suggestions,    \* Language_Model.suggestions: defaultdict(Counter)
    freq_tokens,    \* Language_Model.freq_tokens: Counter of tokens
    token_count,    \* Language_Model.token_count
    vocab,          \* Language_Model.vocab: set of tokens
    error_tables,   \* Spell_Checker.error_tables
    changes,        \* number of calls so far that changed a table
    last            \* the call that has just returned, with its result

vars == <<n, chars, char_pair, char_counts, model_dict, suggestions,
          freq_tokens, token_count, vocab, error_tables, changes, last>>

lmTables == <<char_pair, char_counts, model_dict, suggestions,
              freq_tokens, token_count, vocab>>

(***************************************************************************)
(* Bounds of the model.                                                    *)
(***************************************************************************)
\* orders n of the language model that are explored: 1 .. MaxOrder
MaxOrder == 3
\* calls that change a table (of the language model, or the error tables),
\* per behaviour
MaxChanges == 2
\* lengths asked of generate: 0 .. MaxGenLen
MaxGenLen == 3
\* the letters of edits1 that are explored: the first NumLetters of a..z
NumLetters == 2

(***************************************************************************)
(* Strings.                                                                *)
(***************************************************************************)
None == [kind |-> "None"]

Raise(e) == [kind |-> "raise", exc |-> e]

IsRaise(x) == x.kind = "raise"

\* a returned str, float or token, so that every result has a kind
Str(s) == [kind |-> "str", value |-> s]

Float(v) == [kind |-> "float", value |-> v]

Token(t) == [kind |-> "token", value |-> t]

\* str + str over a sequence of strings
RECURSIVE Concat(_)
Concat(ss) == IF ss = <<>> THEN <<>> ELSE Head(ss) \o Concat(Tail(ss))

\* sep.join(parts)
RECURSIVE Join(_, _)
Join(sep, parts) ==
    IF parts = <<>> THEN <<>>
    ELSE IF Len(parts) = 1 THEN parts[1]
    ELSE parts[1] \o sep \o Join(sep, Tail(parts))

\* s[i:j] with 0-based Python indices already clipped to 0 .. len(s)
Slice(s, i, j) == SubSeq(s, i + 1, j)

Max2(a, b) == IF a >= b THEN a ELSE b

Min2(a, b) == IF a <= b THEN a ELSE b

\* s[-k:] for k >= 0: Python reads -0 as 0, so s[-0:] is the whole of s
LastSlice(s, k) ==
    IF k = 0 THEN s ELSE SubSeq(s, Max2(1, Len(s) - k + 1), Len(s))

Range(s) == {s[i] : i \in 1..Len(s)}

ascii_lowercase ==
    <<"a", "b", "c", "d", "e", "f", "g", "h", "i", "j", "k", "l", "m",
      "n", "o", "p", "q", "r", "s", "t", "u", "v", "w", "x", "y", "z">>

ascii_uppercase ==
    <<"A", "B", "C", "D", "E", "F", "G", "H", "I", "J", "K", "L", "M",
      "N", "O", "P", "Q", "R", "S", "T", "U", "V", "W", "X", "Y", "Z">>

\* string.punctuation (without the double quote, the backslash and the
\* backquote, which no text of the model contains)
punctuation ==
    {"!", "#", "$", "%", "&", "'", "(", ")", "*", "+", ",", "-", ".",
     "/", ":", ";", "<", "=", ">", "?", "@", "[", "]", "^", "_",
     "{", "|", "}", "~"}

digits == {"0", "1", "2", "3", "4", "5", "6", "7", "8", "9"}

whitespace == {" ", "\t", "\n", "\r"}

\* the characters \w matches among those the model's texts are made of
IsWordChar(c) ==
    c \in Range(ascii_lowercase) \cup Range(ascii_uppercase) \cup digits \cup {"_"}

lowerChar(c) ==
    IF c \in Range(ascii_uppercase)
    THEN ascii_lowercase[CHOOSE i \in 1..26 : ascii_uppercase[i] = c]
    ELSE c

\* text.lower()
lower(text) == [i \in 1..Len(text) |-> lowerChar(text[i])]

\* the characters of s that are not in the set drop, in order
RECURSIVE Without(_, _)
Without(s, drop) ==
    IF s = <<>> THEN <<>>
    ELSE IF Head(s) \in drop THEN Without(Tail(s), drop)
    ELSE <<Head(s)>> \o Without(Tail(s), drop)

StartsWith(s, pre) == Len(s) >= Len(pre) /\ SubSeq(s, 1, Len(pre)) = pre

\* the length of the longest prefix of s made of characters satisfying \S
RECURSIVE NonSpaceRun(_)
NonSpaceRun(s) ==
    IF s = <<>> \/ Head(s) \in whitespace THEN 0 ELSE 1 + NonSpaceRun(Tail(s))

\* the length of the match of https?://\S+ at the start of s, 0 if none
UrlMatch(s) ==
    LET scheme == IF StartsWith(s, <<"h", "t", "t", "p", "s", ":", "/", "/">>) THEN 8
                  ELSE IF StartsWith(s, <<"h", "t", "t", "p", ":", "/", "/">>) THEN 7
                  ELSE 0
        run == IF scheme = 0 THEN 0 ELSE NonSpaceRun(SubSeq(s, scheme + 1, Len(s)))
    IN IF run = 0 THEN 0 ELSE scheme + run

\* re.sub(r'https?://\S+', '', text)
RECURSIVE remove_urls(_)
remove_urls(s) ==
    IF s = <<>> THEN <<>>
    ELSE IF UrlMatch(s) > 0 THEN remove_urls(SubSeq(s, UrlMatch(s) + 1, Len(s)))
    ELSE <<Head(s)>> \o remove_urls(Tail(s))

\* re.findall(r'\w+', text): the maximal runs of word characters; cur is the
\* run being read
RECURSIVE FindWords(_, _)
FindWords(s, cur) ==
    IF s = <<>> THEN (IF cur = <<>> THEN <<>> ELSE <<cur>>)
    ELSE IF IsWordChar(Head(s)) THEN FindWords(Tail(s), Append(cur, Head(s)))
    ELSE (IF cur = <<>> THEN <<>> ELSE <<cur>>) \o FindWords(Tail(s), <<>>)

\* normalize_text(text) with its default arguments
normalize_text(text) ==
    LET lowered == lower(text)
        nourls == remove_urls(lowered)
        nopunct == Without(nourls, punctuation)
        nodigits == Without(nopunct, digits)
    IN Join(<<" ">>, FindWords(nodigits, <<>>))

\* str.split(): the maximal runs of non-whitespace characters
RECURSIVE split(_, _)
split(s, cur) ==
    IF s = <<>> THEN (IF cur = <<>> THEN <<>> ELSE <<cur>>)
    ELSE IF Head(s) \notin whitespace THEN split(Tail(s), Append(cur, Head(s)))
    ELSE (IF cur = <<>> THEN <<>> ELSE <<cur>>) \o split(Tail(s), <<>>)

\* list(str): one token per character
list(s) == [i \in 1..Len(s) |-> <<s[i]>>]

\* the tokens of a normalized text (lines 467-470, 570-573, 612-615)
tokenize(normalized_text) ==
    IF chars THEN list(normalized_text) ELSE split(normalized_text, <<>>)

START == <<"<s>">>

END == <<"</s>">>

\* ['<s>'] * (n - 1) + tokens + ['</s>']
pad(tokens) == [i \in 1..(n - 1) |-> START] \o tokens \o <<END>>

(***************************************************************************)
(* Counters.                                                               *)
(***************************************************************************)
EmptyDict == <<>>

\* Counter.get(k, 0)
Get(c, k) == IF k \in DOMAIN c THEN c[k] ELSE 0

\* c[k] += 1 on a Counter or a defaultdict(int)
Inc(c, k) ==
    IF k \in DOMAIN c THEN [c EXCEPT ![k] = @ + 1] ELSE c @@ (k :> 1)

\* sum(c.values())
RECURSIVE SumOver(_, _)
SumOver(c, keys) ==
    IF keys = {} THEN 0
    ELSE LET k == CHOOSE x \in keys : TRUE
         IN c[k] + SumOver(c, keys \ {k})

Sum(c) == SumOver(c, DOMAIN c)

\* c[k] += 1 for every k of the sequence ks, in order
RECURSIVE IncAll(_, _)
IncAll(c, ks) == IF ks = <<>> THEN c ELSE IncAll(Inc(c, Head(ks)), Tail(ks))

(***************************************************************************)
(* Floats, as exact rationals scaled by powers of the floor 1e-8.          *)
(***************************************************************************)
RECURSIVE GCD(_, _)
GCD(a, b) == IF b = 0 THEN a ELSE GCD(b, a % b)

\* (p / q) * (1e-8)^e in lowest terms; zero has one representation
Rat(p, q, e) ==
    IF p = 0 THEN [p |-> 0, q |-> 1, e |-> 0]
    ELSE LET g == GCD(p, q) IN [p |-> p \div g, q |-> q \div g, e |-> e]

Zero == Rat(0, 1, 0)

One == Rat(1, 1, 0)

\* the literal 1e-8 (lines 145, 202, 346, 648)
FLOOR == Rat(1, 1, 1)

InvFloor == 100000000

RMul(a, b) == Rat(a.p * b.p, a.q * b.q, a.e + b.e)

\* a / k for a count k > 0
RDivInt(a, k) == Rat(a.p, a.q * k, a.e)

RECURSIVE Pow(_, _)
Pow(b, k) == IF k = 0 THEN 1 ELSE b * Pow(b, k - 1)

\* a < b.  With equal exponents the fractions are compared; otherwise the
\* value with more factors 1e-8 is the smaller one as long as the fractions
\* are within 1e8 of each other, and the exact comparison is made if not.
RLess(a, b) ==
    IF b.p = 0 THEN FALSE
    ELSE IF a.p = 0 THEN TRUE
    ELSE IF a.e = b.e THEN a.p * b.q < b.p * a.q
    ELSE IF a.e > b.e
         THEN (a.p * b.q < InvFloor) \/ (a.p * b.q < b.p * a.q * Pow(InvFloor, a.e - b.e))
         ELSE ~((b.p * a.q < InvFloor) \/ (b.p * a.q <= a.p * b.q * Pow(InvFloor, b.e - a.e)))

RMax2(a, b) == IF RLess(a, b) THEN b ELSE a

\* max(...) of a non-empty set of values
RMaxOf(S) == CHOOSE x \in S : \A y \in S : ~RLess(x, y)

\* 1 - a, for a fraction 0 <= a <= 1 without floor factors
ROneMinus(a) == Rat(a.q - a.p, a.q, 0)

\* float('-inf')
NegInf == [kind |-> "-inf"]

\* a finite log-likelihood, kept as the probability v > 0 it is the log of
Log(v) == [kind |-> "log", of |-> v]

\* math.exp(log_likelihood)
exp(ll) == IF ll.kind = "-inf" THEN Zero ELSE ll.of

(***************************************************************************)
(* Language_Model                                                          *)
(***************************************************************************)
\* the adjacent pairs s[i:i + 2] for i in range(len(s) - 1)
Pairs(s) == [i \in 1..(Len(s) - 1) |-> <<s[i], s[i + 1]>>]

\* the windows tokens[i:i + k] for i in range(len(tokens) - k + 1)
Windows(tokens, k) == [i \in 1..(Len(tokens) - k + 1) |-> SubSeq(tokens, i, i + k - 1)]

\* ngram[:-1]
Context(ngram) == SubSeq(ngram, 1, Len(ngram) - 1)

\* ngram[-1]
LastToken(ngram) == ngram[Len(ngram)]

\* self.suggestions[context]: reading a defaultdict(Counter) at a missing key
\* inserts the key with an empty Counter
Touch(sugg, context) ==
    IF context \in DOMAIN sugg THEN sugg ELSE sugg @@ (context :> EmptyDict)

\* self.suggestions[ngram[:-1]][next_token] += 1
IncSuggestion(sugg, ngram) ==
    LET t == Touch(sugg, Context(ngram))
    IN [t EXCEPT ![Context(ngram)] = Inc(@, LastToken(ngram))]

RECURSIVE IncSuggestions(_, _)
IncSuggestions(sugg, ngrams) ==
    IF ngrams = <<>> THEN sugg
    ELSE IncSuggestions(IncSuggestion(sugg, Head(ngrams)), Tail(ngrams))

\* Language_Model.build_model(text): the tables after the call and what it
\* returns.  A text that normalizes to '' raises IndexError at
\* normalized_text[-1], before any table has been changed.
build_model(text) ==
    LET normalized_text == normalize_text(text)
        tokens == tokenize(normalized_text)
        freq == IncAll(freq_tokens, tokens)
        ngrams == Windows(pad(tokens), n)
    IN IF normalized_text = <<>>
       THEN [char_pair |-> char_pair, char_counts |-> char_counts,
             model_dict |-> model_dict, suggestions |-> suggestions,
             freq_tokens |-> freq_tokens, token_count |-> token_count,
             vocab |-> vocab, res |-> Raise("IndexError")]
       ELSE [char_pair |-> IncAll(char_pair, Pairs(normalized_text)),
             char_counts |-> IncAll(char_counts, normalized_text),
             model_dict |-> IncAll(model_dict, ngrams),
             suggestions |-> IncSuggestions(suggestions, ngrams),
             freq_tokens |-> freq,
             token_count |-> Sum(freq),
             vocab |-> vocab \cup DOMAIN freq,
             res |-> None]

\* Language_Model.smooth(ngram) on the table sugg: the table after the call
\* (line 663 reads the defaultdict) and the value returned
smooth(sugg, ngram) ==
    LET context == Context(ngram)
        touched == Touch(sugg, context)
        context_count == Sum(touched[context])
        token_count_ == Get(model_dict, ngram)
        denominator == context_count + Cardinality(vocab)
    IN [sugg |-> touched,
        res |-> IF denominator = 0 THEN Raise("ZeroDivisionError")
                ELSE Float(Rat(token_count_ + 1, denominator, 0))]

\* lines 634-639: the relative frequency of the n-gram's last token
RawProbability(sugg, ngram) ==
    LET context == Context(ngram)
        touched == Touch(sugg, context)
        context_count == Sum(touched[context])
        token_count_ == Get(touched[context], LastToken(ngram))
    IN [sugg |-> touched,
        res |-> Float(IF context_count > 0 THEN Rat(token_count_, context_count, 0)
                      ELSE Zero)]

\* lines 645-648: log_prob += math.log(prob), or math.log(1e-8) for prob <= 0
Accumulate(acc, prob) == IF prob.p > 0 THEN RMul(acc, prob) ELSE RMul(acc, FLOOR)

\* a loop that chooses the rule window by window: smooth for a window with a
\* token absent from freq_tokens, the relative frequency for the others
RECURSIVE EvaluateNgrams_PerWindow(_, _, _, _)
EvaluateNgrams_PerWindow(sugg, ngrams, smoothing, acc) ==
    IF ngrams = <<>> THEN [sugg |-> sugg, res |-> Log(acc)]
    ELSE LET Step(r) ==
                 IF IsRaise(r.res)
                 THEN r
                 ELSE EvaluateNgrams_PerWindow(r.sugg, Tail(ngrams), smoothing,
                                               Accumulate(acc, r.res.value))
         IN Step(IF \E i \in 1..Len(Head(ngrams)) :
                        Head(ngrams)[i] \notin DOMAIN freq_tokens \cup {START, END}
                 THEN smooth(sugg, Head(ngrams))
                 ELSE RawProbability(sugg, Head(ngrams)))

\* lines 631-650: the loop over the n-grams of the padded text
RECURSIVE EvaluateNgrams(_, _, _, _)
EvaluateNgrams(sugg, ngrams, smoothing, acc) ==
    IF ngrams = <<>> THEN [sugg |-> sugg, res |-> Log(acc)]
    ELSE LET Step(r) ==
                 IF IsRaise(r.res)
                 THEN r
                 ELSE EvaluateNgrams(r.sugg, Tail(ngrams), smoothing,
                                     Accumulate(acc, r.res.value))
         IN Step(IF smoothing THEN smooth(sugg, Head(ngrams))
                 ELSE RawProbability(sugg, Head(ngrams)))

\* Language_Model.evaluate_text(text) on the table sugg
evaluate_text(sugg, text) ==
    LET Evaluate(tokens) ==
            IF tokens = <<>> THEN [sugg |-> sugg, res |-> NegInf]
            ELSE EvaluateNgrams(sugg, Windows(pad(tokens), n),
                                \E i \in 1..Len(tokens) : tokens[i] \notin DOMAIN freq_tokens,
                                One)
    IN Evaluate(tokenize(normalize_text(text)))

\* the tokens of generated_text that are not sentinels (line 592)
RECURSIVE StripSentinels(_)
StripSentinels(tokens) ==
    IF tokens = <<>> THEN <<>>
    ELSE IF Head(tokens) \in {START, END} THEN StripSentinels(Tail(tokens))
    ELSE <<Head(tokens)>> \o StripSentinels(Tail(tokens))

\* ''.join(tokens) in character mode, ' '.join(tokens) in word mode
JoinTokens(tokens) == IF chars THEN Concat(tokens) ELSE Join(<<" ">>, tokens)

\* Language_Model._get_next_token(context_prefix): the values it can return.
\* random.randint(1, 0) raises ValueError when the context's Counter is
\* empty; otherwise every token with a positive count can be drawn.
get_next_token(context_prefix) ==
    IF context_prefix \notin DOMAIN suggestions THEN {None}
    ELSE IF Sum(suggestions[context_prefix]) = 0 THEN {Raise("ValueError")}
    ELSE {Token(t) : t \in {x \in DOMAIN suggestions[context_prefix] :
                                  suggestions[context_prefix][x] > 0}}

\* lines 584-597: the generation loop from generated_text, and the outcomes it
\* can have; lookups are the context prefixes passed to _get_next_token
RECURSIVE GenerateLoop(_, _, _)
GenerateLoop(generated_text, length, lookups) ==
    IF Len(generated_text) >= length
    THEN {[res |-> Str(JoinTokens(StripSentinels(generated_text))),
           generated |-> generated_text, lookups |-> lookups]}
    ELSE LET context_prefix == LastSlice(generated_text, n - 1)
             looked == Append(lookups, context_prefix)
         IN UNION {IF next_token = None
                   THEN {[res |-> Str(JoinTokens(StripSentinels(generated_text))),
                          generated |-> generated_text, lookups |-> looked]}
                   ELSE IF IsRaise(next_token)
                   THEN {[res |-> next_token, generated |-> generated_text,
                          lookups |-> looked]}
                   ELSE GenerateLoop(Append(generated_text, next_token.value), length, looked)
                   : next_token \in get_next_token(context_prefix)}

\* Language_Model.generate(context, n=length): the outcomes it can have.
\* start is the starting context (sampled or supplied), as tokens.
generate(context, length) ==
    IF context = None
    THEN IF DOMAIN suggestions = {}
         THEN {[res |-> Raise("IndexError"), start |-> <<>>, generated |-> <<>>,
                lookups |-> <<>>]}
         ELSE {[res |-> o.res, start |-> context_tokens, generated |-> o.generated,
                lookups |-> o.lookups]
               : <<context_tokens, o>> \in
                   UNION {{<<c, o>> : o \in GenerateLoop(c, length, <<>>)}
                          : c \in DOMAIN suggestions}}
    ELSE LET Seeded(context_tokens) ==
                 IF Len(context_tokens) >= length
                 THEN {[res |-> Str(JoinTokens(SubSeq(context_tokens, 1, length))),
                        start |-> context_tokens,
                        generated |-> <<>>, lookups |-> <<>>]}
                 ELSE {[res |-> o.res, start |-> context_tokens, generated |-> o.generated,
                        lookups |-> o.lookups]
                       : o \in GenerateLoop(context_tokens, length, <<>>)}
         IN Seeded(tokenize(normalize_text(context.value)))

(***************************************************************************)
(* Spell_Checker: candidates                                               *)
(***************************************************************************)
\* letters of edits1 (line 74), cut to the first NumLetters letters
letters == SubSeq(ascii_lowercase, 1, NumLetters)

\* (word[:i], word[i:]) for i in range(len(word) + 1)
splits(word) == {<<SubSeq(word, 1, i), SubSeq(word, i + 1, Len(word))>> : i \in 0..Len(word)}

deletes(word) == {s[1] \o Tail(s[2]) : s \in {x \in splits(word) : x[2] # <<>>}}

transposes(word) ==
    {s[1] \o <<s[2][2], s[2][1]>> \o SubSeq(s[2], 3, Len(s[2]))
     : s \in {x \in splits(word) : Len(x[2]) > 1}}

\* replaces that never puts back the letter it takes out
replaces_NoSelf(word) ==
    UNION {{s[1] \o <<c>> \o Tail(s[2]) : c \in Range(letters) \ {Head(s[2])}}
           : s \in {x \in splits(word) : x[2] # <<>>}}

replaces(word) ==
    {s[1] \o <<c>> \o Tail(s[2])
     : s \in {x \in splits(word) : x[2] # <<>>}, c \in Range(letters)}

inserts(word) == {s[1] \o <<c>> \o s[2] : s \in splits(word), c \in Range(letters)}

\* Spell_Checker.edits1(word)
edits1(word) == deletes(word) \cup transposes(word) \cup replaces(word) \cup inserts(word)

\* Spell_Checker.edits2(word): the values the generator yields
edits2(word) == UNION {edits1(e1) : e1 \in edits1(word)}

\* Spell_Checker.known(words)
known(words) == {word \in words : word \in vocab}

\* a or b on sets: a when it is not empty
Or(a, b) == IF a # {} THEN a ELSE b

\* get_candidates without its edits2 step
get_candidates_NoEdits2(word) ==
    Or(known({word}), Or(known(edits1(word)), {word}))

\* candidates that prefer the known single edits of a word to the word
\* itself, known or not
get_candidates_Neighbours(word) ==
    Or(known(edits1(word)) \ {word}, Or(known({word}), Or(known(edits2(word)), {word})))

\* Spell_Checker.get_candidates(word)
get_candidates(word) ==
    Or(known({word}), Or(known(edits1(word)), Or(known(edits2(word)), {word})))

(***************************************************************************)
(* Spell_Checker: the error model                                          *)
(***************************************************************************)
\* a dict of error tables that has been attached
Dict(d) == [kind |-> "dict", value |-> d]

\* bool(self.error_tables): None and {} are falsy
HasErrorTables == error_tables.kind = "dict" /\ error_tables.value # EmptyDict

\* min of a non-empty set of indices
MinOf(S) == CHOOSE x \in S : \A y \in S : x <= y

\* word[:idx] + word[idx + 1:] for a 0-based idx
DropAt(word, idx) == SubSeq(word, 1, idx) \o SubSeq(word, idx + 2, Len(word))

\* count / frequency if frequency else 0.0
Ratio(count, frequency) == IF frequency # 0 THEN Rat(count, frequency, 0) ELSE Zero

\* lines 253-255: the indices idx at which dropping modified_word[idx] gives
\* original_word; the loop returns at the first one
deletion_sites(modified_word, original_word) ==
    {idx \in 0..(Len(modified_word) - 1) : DropAt(modified_word, idx) = original_word}

\* a deletion key without the start-of-word marker: at index 0 the deleted
\* character is paired with the character that follows it
deletion_key_NoMarker(modified_word, idx) ==
    IF idx = 0
    THEN <<modified_word[1], modified_word[IF Len(modified_word) > 1 THEN 2 ELSE 1]>>
    ELSE <<modified_word[idx], modified_word[idx + 1]>>

\* lines 257-260: the key of the deletion table
deletion_key(modified_word, idx) ==
    IF idx = 0 THEN <<"#", modified_word[1]>>
    ELSE <<modified_word[idx], modified_word[idx + 1]>>

\* Spell_Checker.deletion_probability(modified_word, original_word)
deletion_probability(modified_word, original_word) ==
    IF Len(modified_word) # Len(original_word) + 1 THEN Zero
    ELSE IF deletion_sites(modified_word, original_word) = {} THEN Zero
    ELSE LET idx == MinOf(deletion_sites(modified_word, original_word))
             key == deletion_key(modified_word, idx)
         IN Ratio(Get(error_tables.value["deletion"], key), Get(char_pair, key))

\* lines 283-285
insertion_sites(modified_word, original_word) ==
    {idx \in 0..(Len(original_word) - 1) : DropAt(original_word, idx) = modified_word}

\* lines 287-290
insertion_key(original_word, idx) ==
    IF idx = 0 THEN <<"#", original_word[1]>>
    ELSE <<original_word[idx], original_word[idx + 1]>>

\* Spell_Checker.insertion_probability(modified_word, original_word)
insertion_probability(modified_word, original_word) ==
    IF Len(modified_word) # Len(original_word) - 1 THEN Zero
    ELSE IF insertion_sites(modified_word, original_word) = {} THEN Zero
    ELSE LET idx == MinOf(insertion_sites(modified_word, original_word))
             key == insertion_key(original_word, idx)
         IN Ratio(Get(error_tables.value["insertion"], key), Get(char_counts, key[1]))

\* lines 313-314: the positions (0-based) at which the two words differ
substitution_sites(modified_word, original_word) ==
    {idx \in 0..(Len(original_word) - 1) : modified_word[idx + 1] # original_word[idx + 1]}

\* line 315: orig_char + mod_char
substitution_key(modified_word, original_word, idx) ==
    <<original_word[idx + 1], modified_word[idx + 1]>>

\* Spell_Checker.substitution_probability(modified_word, original_word)
substitution_probability(modified_word, original_word) ==
    IF Len(modified_word) # Len(original_word) THEN Zero
    ELSE IF substitution_sites(modified_word, original_word) = {} THEN Zero
    ELSE LET idx == MinOf(substitution_sites(modified_word, original_word))
             key == substitution_key(modified_word, original_word, idx)
         IN Ratio(Get(error_tables.value["substitution"], key), Get(char_counts, key[2]))

\* lines 337-340
transposition_sites(modified_word, original_word) ==
    {i \in 0..(Len(original_word) - 2) :
        /\ original_word[i + 1] = modified_word[i + 2]
        /\ original_word[i + 2] = modified_word[i + 1]
        /\ SubSeq(original_word, 1, i) \o SubSeq(original_word, i + 3, Len(original_word))
           = SubSeq(modified_word, 1, i) \o SubSeq(modified_word, i + 3, Len(modified_word))}

\* line 341: original_word[i:i + 2]
transposition_key(original_word, i) == <<original_word[i + 1], original_word[i + 2]>>

\* Spell_Checker.transposition_probability(modified_word, original_word)
transposition_probability(modified_word, original_word) ==
    IF Len(modified_word) # Len(original_word) THEN Zero
    ELSE IF transposition_sites(modified_word, original_word) = {} THEN FLOOR
    ELSE LET i == MinOf(transposition_sites(modified_word, original_word))
             key == transposition_key(original_word, i)
         IN Ratio(Get(error_tables.value["transposition"], key), Get(char_pair, key))

\* the four estimators, as the methods <operation>_probability of Spell_Checker
Operations == {"insertion", "deletion", "substitution", "transposition"}

\* lines 250, 280, 310, 334: the length guard of each estimator
LengthMatches(operation, modified_word, original_word) ==
    CASE operation = "deletion" -> Len(modified_word) = Len(original_word) + 1
      [] operation = "insertion" -> Len(modified_word) = Len(original_word) - 1
      [] OTHER -> Len(modified_word) = Len(original_word)

\* the indices at which the loop of the estimator can return
estimator_sites(operation, modified_word, original_word) ==
    CASE operation = "deletion" -> deletion_sites(modified_word, original_word)
      [] operation = "insertion" -> insertion_sites(modified_word, original_word)
      [] operation = "substitution" -> substitution_sites(modified_word, original_word)
      [] OTHER -> transposition_sites(modified_word, original_word)

\* the key the estimator builds at index idx
estimator_key(operation, modified_word, original_word, idx) ==
    CASE operation = "deletion" -> deletion_key(modified_word, idx)
      [] operation = "insertion" -> insertion_key(original_word, idx)
      [] operation = "substitution" -> substitution_key(modified_word, original_word, idx)
      [] OTHER -> transposition_key(original_word, idx)

\* the value the estimator returns
estimator_value(operation, modified_word, original_word) ==
    CASE operation = "deletion" -> deletion_probability(modified_word, original_word)
      [] operation = "insertion" -> insertion_probability(modified_word, original_word)
      [] operation = "substitution" -> substitution_probability(modified_word, original_word)
      [] OTHER -> transposition_probability(modified_word, original_word)

\* A direct call self.<operation>_probability(modified_word, original_word):
\* the key looked up in self.error_tables[operation] (None when the call
\* returns before any lookup) and the outcome.  self.error_tables[operation]
\* raises TypeError on None and KeyError on a dict without the operation.
estimate(operation, modified_word, original_word) ==
    IF \/ ~LengthMatches(operation, modified_word, original_word)
       \/ estimator_sites(operation, modified_word, original_word) = {}
    THEN [key |-> None,
          res |-> Float(estimator_value(operation, modified_word, original_word))]
    ELSE LET Looked(key) ==
                 IF error_tables.kind = "None"
                 THEN [key |-> None, res |-> Raise("TypeError")]
                 ELSE IF operation \notin DOMAIN error_tables.value
                 THEN [key |-> None, res |-> Raise("KeyError")]
                 ELSE [key |-> [kind |-> "key", value |-> key],
                       res |-> Float(estimator_value(operation, modified_word, original_word))]
         IN Looked(estimator_key(operation, modified_word, original_word,
                                 MinOf(estimator_sites(operation, modified_word, original_word))))

\* get_first_edit_probability without the literal 1e-8 among the arguments
\* of max
get_first_edit_probability_NoFloor(candidate, original_word, alpha) ==
    IF ~HasErrorTables \/ original_word = candidate THEN alpha
    ELSE RMaxOf({IF Len(candidate) = Len(original_word) - 1
                 THEN insertion_probability(candidate, original_word) ELSE Zero,
                 IF Len(candidate) = Len(original_word) + 1
                 THEN deletion_probability(candidate, original_word) ELSE Zero,
                 IF Len(candidate) = Len(original_word)
                 THEN substitution_probability(candidate, original_word) ELSE Zero,
                 IF Len(candidate) = Len(original_word)
                 THEN transposition_probability(candidate, original_word) ELSE Zero})

\* Spell_Checker.get_first_edit_probability(candidate, original_word, alpha)
get_first_edit_probability(candidate, original_word, alpha) ==
    IF ~HasErrorTables \/ original_word = candidate THEN alpha
    ELSE LET prob_insert == IF Len(candidate) = Len(original_word) - 1
                            THEN insertion_probability(candidate, original_word)
                            ELSE Zero
             prob_delete == IF Len(candidate) = Len(original_word) + 1
                            THEN deletion_probability(candidate, original_word)
                            ELSE Zero
             prob_subst == IF Len(candidate) = Len(original_word)
                           THEN substitution_probability(candidate, original_word)
                           ELSE Zero
             prob_trans == IF Len(candidate) = Len(original_word)
                           THEN transposition_probability(candidate, original_word)
                           ELSE Zero
         IN RMaxOf({prob_insert, prob_delete, prob_subst, prob_trans, FLOOR})

\* Spell_Checker.calculate_distance_2_probability(candidate, original_word, alpha)
calculate_distance_2_probability(candidate, original_word, alpha) ==
    LET intermediate_words ==
            {intermediate \in edits1(original_word) : candidate \in edits1(intermediate)}
    IN RMaxOf({get_first_edit_probability(candidate, original_word, alpha)} \cup
              {RMul(get_first_edit_probability(intermediate, original_word, alpha),
                    get_first_edit_probability(candidate, intermediate, alpha))
               : intermediate \in intermediate_words})

\* Spell_Checker.compute_error_prob(candidate, original_word, alpha)
compute_error_prob(candidate, original_word, alpha) ==
    RMax2(get_first_edit_probability(candidate, original_word, alpha),
          calculate_distance_2_probability(candidate, original_word, alpha))

(***************************************************************************)
(* Spell_Checker: corrections                                              *)
(***************************************************************************)
\* Spell_Checker.compute_candidate_probability(candidate, original_word,
\* context, alpha) on the table sugg, which evaluate_text may change
compute_candidate_probability(sugg, candidate, original_word, context, alpha) ==
    LET full_context == context \o <<" ">> \o candidate
        Score(r) ==
            IF IsRaise(r.res) THEN r
            ELSE [sugg |-> r.sugg,
                  res |-> Float(RMul(FLOOR,
                                     RMul(exp(r.res),
                                          compute_error_prob(candidate, original_word, alpha))))]
    IN Score(evaluate_text(sugg, full_context))

\* the keys max() computes, one candidate after the other; scores maps the
\* candidates already scored.  An exception ends the loop.  (The order in
\* which Python iterates the set does not change the table left behind: the
\* insertions commute, and evaluate_text raises only when the vocabulary is
\* empty, when there is a single candidate.)
RECURSIVE ScoreCandidates(_, _, _, _, _, _)
ScoreCandidates(sugg, candidates, original_word, context, alpha, scores) ==
    IF candidates = {} THEN [sugg |-> sugg, res |-> None, scores |-> scores]
    ELSE LET Step(candidate, r) ==
                 IF IsRaise(r.res) THEN [sugg |-> r.sugg, res |-> r.res, scores |-> scores]
                 ELSE ScoreCandidates(r.sugg, candidates \ {candidate}, original_word,
                                      context, alpha, scores @@ (candidate :> r.res.value))
             Next1(candidate) ==
                 Step(candidate,
                      compute_candidate_probability(sugg, candidate, original_word,
                                                    context, alpha))
         IN Next1(CHOOSE c \in candidates : TRUE)

\* Spell_Checker.get_correction(word, context, alpha): the outcomes it can
\* have.  max() returns the first candidate with the greatest key in the
\* set's iteration order, so any candidate with the greatest key can win.
get_correction(sugg, word, context, alpha) ==
    LET Best(candidates, scored) ==
            IF IsRaise(scored.res) THEN {[sugg |-> scored.sugg, res |-> scored.res]}
            ELSE {[sugg |-> scored.sugg, res |-> Str(best_candidate)]
                  : best_candidate \in {c \in candidates :
                        \A d \in candidates : ~RLess(scored.scores[c], scored.scores[d])}}
        Correct(candidates) ==
            IF candidates = {} THEN {[sugg |-> sugg, res |-> Str(word)]}
            ELSE Best(candidates,
                      ScoreCandidates(sugg, candidates, word, context, alpha, EmptyDict))
    IN Correct(get_candidates(word))

\* the outcome of spell_check: what is returned, the table left behind, the
\* return path taken, the 0-based positions whose token was replaced, and the
\* hypothesis sentences of the whole-sentence search
Outcome(sugg, res, path, replaced, possible_sentences) ==
    [sugg |-> sugg, res |-> res, path |-> path, replaced |-> replaced,
     possible_sentences |-> possible_sentences]

\* lines 374-381: the tokens from position i (1-based) on, corrected one by one
RECURSIVE ShortText(_, _, _, _, _, _)
ShortText(sugg, tokens, i, corrected_words, replaced, alpha) ==
    IF i > Len(tokens)
    THEN {Outcome(sugg, Str(Join(<<" ">>, corrected_words)), "short", replaced, {})}
    ELSE IF tokens[i] \in vocab
    THEN ShortText(sugg, tokens, i + 1, Append(corrected_words, tokens[i]), replaced, alpha)
    ELSE UNION {IF IsRaise(o.res)
                THEN {Outcome(o.sugg, o.res, "short", replaced, {})}
                ELSE ShortText(o.sugg, tokens, i + 1, Append(corrected_words, o.res.value),
                               IF o.res.value = tokens[i] THEN replaced
                               ELSE replaced \cup {i - 1}, alpha)
                : o \in get_correction(sugg, tokens[i], <<>>, alpha)}

\* tokens[:i] + [candidate] + tokens[i + 1:] for a 0-based i
Replace(tokens, i, candidate) == [tokens EXCEPT ![i + 1] = candidate]

\* alternatives drawn from the known single edits of every token, in the
\* vocabulary or not
Alternatives_Edits(tokens, i) ==
    {Join(<<" ">>, Replace(tokens, i, candidate))
     : candidate \in known(edits1(tokens[i + 1])) \ {tokens[i + 1]}}

\* lines 399-404: the sentences with the token at 0-based position i replaced
Alternatives(tokens, i) ==
    {Join(<<" ">>, Replace(tokens, i, candidate))
     : candidate \in get_candidates(tokens[i + 1]) \ {tokens[i + 1]}}

\* lines 414-418: the hypotheses scored one after the other; scores maps the
\* (position, sentence) pairs already scored, the original being at position -1
RECURSIVE ScoreSentences(_, _, _, _, _)
ScoreSentences(sugg, todo, original_sentence, alpha, scores) ==
    IF todo = {} THEN [sugg |-> sugg, res |-> None, scores |-> scores]
    ELSE LET first == MinOf({h[1] : h \in todo})
             Step(h, r) ==
                 IF IsRaise(r.res) THEN [sugg |-> r.sugg, res |-> r.res, scores |-> scores]
                 ELSE ScoreSentences(r.sugg, todo \ {h}, original_sentence, alpha,
                                     scores @@ (h :> IF h[2] = original_sentence
                                                     THEN RMul(exp(r.res), alpha)
                                                     ELSE RMul(exp(r.res), ROneMinus(alpha))))
             Next1(h) == Step(h, evaluate_text(sugg, h[2]))
         IN Next1(CHOOSE x \in todo : x[1] = first)

\* lines 394-422: the whole-sentence hypothesis search.  max() returns the
\* first hypothesis with the greatest probability: the original if it is one,
\* else one at the leftmost position that has one.
SentenceSearch(sugg, tokens, alpha) ==
    LET original_sentence == Join(<<" ">>, tokens)
        First(scored, possible_sentences, best) ==
            {Outcome(scored.sugg, Str(h[2]), "sentence", {}, possible_sentences)
             : h \in {x \in best : x[1] = MinOf({g[1] : g \in best})}}
        Best(hypotheses, scored, possible_sentences) ==
            IF IsRaise(scored.res)
            THEN {Outcome(scored.sugg, scored.res, "sentence", {}, possible_sentences)}
            ELSE First(scored, possible_sentences,
                       {h \in hypotheses :
                           \A g \in hypotheses : ~RLess(scored.scores[h], scored.scores[g])})
        Search(hypotheses) ==
            Best(hypotheses,
                 ScoreSentences(sugg, hypotheses, original_sentence, alpha, EmptyDict),
                 {h[2] : h \in hypotheses})
    IN Search({<<-1, original_sentence>>} \cup
              UNION {{<<i, s>> : s \in Alternatives(tokens, i)}
                     : i \in 0..(Len(tokens) - 1)})

\* an out-of-vocabulary loop that returns the sentence as it is when no
\* correction differs from its token, without the whole-sentence search
RECURSIVE OovLoop_Returns(_, _, _, _)
OovLoop_Returns(sugg, tokens, oov_indices, alpha) ==
    IF oov_indices = <<>>
    THEN {Outcome(sugg, Str(Join(<<" ">>, tokens)), "oov", {}, {})}
    ELSE LET i == Head(oov_indices)
             context_start == Max2(0, i - n + 1)
             context == Join(<<" ">>, SubSeq(tokens, context_start + 1, i))
         IN UNION {IF IsRaise(o.res) THEN {Outcome(o.sugg, o.res, "oov", {}, {})}
                   ELSE IF o.res.value # tokens[i + 1]
                   THEN {Outcome(o.sugg, Str(Join(<<" ">>, Replace(tokens, i, o.res.value))),
                                 "oov", {i}, {})}
                   ELSE OovLoop_Returns(o.sugg, tokens, Tail(oov_indices), alpha)
                   : o \in get_correction(sugg, tokens[i + 1], context, alpha)}

\* lines 384-392: the loop over the out-of-vocabulary positions oov_indices
\* (0-based, ascending), which falls through to the whole-sentence search
\* when no correction differs from its token
RECURSIVE OovLoop(_, _, _, _)
OovLoop(sugg, tokens, oov_indices, alpha) ==
    IF oov_indices = <<>> THEN SentenceSearch(sugg, tokens, alpha)
    ELSE LET i == Head(oov_indices)
             context_start == Max2(0, i - n + 1)
             context == Join(<<" ">>, SubSeq(tokens, context_start + 1, i))
         IN UNION {IF IsRaise(o.res) THEN {Outcome(o.sugg, o.res, "oov", {}, {})}
                   ELSE IF o.res.value # tokens[i + 1]
                   THEN {Outcome(o.sugg, Str(Join(<<" ">>, Replace(tokens, i, o.res.value))),
                                 "oov", {i}, {})}
                   ELSE OovLoop(o.sugg, tokens, Tail(oov_indices), alpha)
                   : o \in get_correction(sugg, tokens[i + 1], context, alpha)}

\* the 0-based positions i .. len(tokens) - 1 of the tokens not in the
\* vocabulary, ascending (line 384)
RECURSIVE OovIndices(_, _)
OovIndices(tokens, i) ==
    IF i >= Len(tokens) THEN <<>>
    ELSE (IF tokens[i + 1] \notin vocab THEN <<i>> ELSE <<>>) \o OovIndices(tokens, i + 1)

\* Spell_Checker.spell_check(text, alpha): the outcomes it can have
spell_check(text, alpha) ==
    LET Check(normalized, tokens) ==
            IF tokens = <<>> THEN {Outcome(suggestions, Str(normalized), "empty", {}, {})}
            ELSE IF Len(tokens) < n THEN ShortText(suggestions, tokens, 1, <<>>, {}, alpha)
            ELSE OovLoop(suggestions, tokens, OovIndices(tokens, 0), alpha)
        Tokens(normalized) == Check(normalized, split(normalized, <<>>))
    IN Tokens(normalize_text(text))

(***************************************************************************)
(* The inputs of the calls that are explored.                              *)
(***************************************************************************)
\* texts given to build_model: '', 'a', 'aaa', 'ab b', 'A#'
BuildTexts ==
    {<<>>, <<"a">>, <<"a", "a", "a">>, <<"a", "b", " ", "b">>, <<"A", "#">>}

\* texts given to evaluate_text:
\* '', '#', 'a', 'b', 'a a', 'b a', 'aaa b', 'ab 1b'
QueryTexts ==
    {<<>>, <<"#">>, <<"a">>, <<"b">>, <<"a", " ", "a">>, <<"b", " ", "a">>,
     <<"a", "a", "a", " ", "b">>, <<"a", "b", " ", "1", "b">>}

\* texts given to spell_check:
\* '', 'b', 'a a', 'b a', 'aaa b', 'bbb a', 'a a a', 'bbb a b'
SpellTexts ==
    {<<>>, <<"b">>, <<"a", " ", "a">>, <<"b", " ", "a">>,
     <<"a", "a", "a", " ", "b">>, <<"b", "b", "b", " ", "a">>,
     <<"a", " ", "a", " ", "a">>, <<"b", "b", "b", " ", "a", " ", "b">>}

\* seed contexts given to generate: 'a', 'b', 'b a', 'a b a'
GenContexts ==
    {<<"a">>, <<"b">>, <<"b", " ", "a">>, <<"a", " ", "b", " ", "a">>}

\* words given to edits1, get_candidates and the error model:
\* '', 'a', 'b', 'ab', 'ba', 'aa', 'aaa', 'bab', '_', '__'
Words ==
    {<<>>, <<"a">>, <<"b">>, <<"a", "b">>, <<"b", "a">>, <<"a", "a">>,
     <<"a", "a", "a">>, <<"b", "a", "b">>, <<"_">>, <<"_", "_">>}

\* words given to get_correction: 'a', 'b', 'ba', 'bbb'
CorrectionWords == {<<"a">>, <<"b">>, <<"b", "a">>, <<"b", "b", "b">>}

\* contexts given to get_correction: '', 'a'
Contexts == {<<>>, <<"a">>}

\* n-grams given to smooth: the windows of the padded token lists
\* ['a'], ['b'] and ['a', 'b']
SmoothNgrams ==
    UNION {Range(Windows(pad(tokens), n))
           : tokens \in {<<<<"a">>>>, <<<<"b">>>>, <<<<"a">>, <<"b">>>>}}

\* alpha: 9/10 and 1/10
Alphas == {Rat(9, 10, 0), Rat(1, 10, 0)}

\* error tables in the format of the confusion matrices: per operation, a
\* weight for some two-character keys
SampleTables ==
    [insertion |-> (<<"#", "b">> :> 2) @@ (<<"a", "a">> :> 1),
     deletion |-> (<<"#", "a">> :> 2) @@ (<<"a", "b">> :> 1),
     substitution |-> (<<"b", "a">> :> 3) @@ (<<"a", "b">> :> 1),
     transposition |-> (<<"a", "b">> :> 2)]

ErrorTables == {None, Dict(EmptyDict), Dict(SampleTables)}

(***************************************************************************)
(* The state machine: one action per call.                                 *)
(***************************************************************************)
Idle == [op |-> "idle"]

\* Language_Model.__init__(n, chars) and Spell_Checker.__init__(lm)
Init ==
    /\ n \in 1..MaxOrder
    /\ chars \in BOOLEAN
    /\ char_pair = EmptyDict
    /\ char_counts = EmptyDict
    /\ model_dict = EmptyDict
    /\ suggestions = EmptyDict
    /\ freq_tokens = EmptyDict
    /\ token_count = 0
    /\ vocab = {}
    /\ error_tables = None
    /\ changes = 0
    /\ last = Idle

\* a call may change the tables while fewer than MaxChanges calls have
Budget(changed) ==
    /\ changed => changes < MaxChanges
    /\ changes' = IF changed THEN changes + 1 ELSE changes

\* a call that can change no table other than suggestions leaves sugg there
Query(sugg) ==
    /\ Budget(sugg # suggestions)
    /\ suggestions' = sugg
    /\ UNCHANGED <<n, chars, char_pair, char_counts, model_dict, freq_tokens,
                   token_count, vocab, error_tables>>

BuildModel ==
    /\ last = Idle
    /\ \E text \in BuildTexts :
            LET r == build_model(text) IN
            /\ Budget(~IsRaise(r.res))
            /\ char_pair' = r.char_pair
            /\ char_counts' = r.char_counts
            /\ model_dict' = r.model_dict
            /\ suggestions' = r.suggestions
            /\ freq_tokens' = r.freq_tokens
            /\ token_count' = r.token_count
            /\ vocab' = r.vocab
            /\ last' = [op |-> "build_model", text |-> text, res |-> r.res]
            /\ UNCHANGED <<n, chars, error_tables>>

EvaluateText ==
    /\ last = Idle
    /\ \E text \in QueryTexts :
            LET r == evaluate_text(suggestions, text) IN
            /\ Query(r.sugg)
            /\ last' = [op |-> "evaluate_text", text |-> text, res |-> r.res]

Smooth ==
    /\ last = Idle
    /\ \E ngram \in SmoothNgrams :
            LET r == smooth(suggestions, ngram) IN
            /\ Query(r.sugg)
            /\ last' = [op |-> "smooth", ngram |-> ngram, res |-> r.res]

Generate ==
    /\ last = Idle
    /\ \E context \in {None} \cup {Str(c) : c \in GenContexts}, length \in 0..MaxGenLen :
            \E o \in generate(context, length) :
                /\ Query(suggestions)
                /\ last' = [op |-> "generate", context |-> context, length |-> length,
                            start |-> o.start, generated |-> o.generated,
                            lookups |-> o.lookups, res |-> o.res]

Edits1 ==
    /\ last = Idle
    /\ \E word \in Words :
            /\ Query(suggestions)
            /\ last' = [op |-> "edits1", word |-> word,
                        res |-> [kind |-> "set", value |-> edits1(word)]]

GetCandidates ==
    /\ last = Idle
    /\ \E word \in Words :
            /\ Query(suggestions)
            /\ last' = [op |-> "get_candidates", word |-> word,
                        res |-> [kind |-> "set", value |-> get_candidates(word)]]

GetCorrection ==
    /\ last = Idle
    /\ \E word \in CorrectionWords, context \in Contexts, alpha \in Alphas :
            \E o \in get_correction(suggestions, word, context, alpha) :
                /\ Query(o.sugg)
                /\ last' = [op |-> "get_correction", word |-> word, context |-> context,
                            alpha |-> alpha, res |-> o.res]

SpellCheck ==
    /\ last = Idle
    /\ \E text \in SpellTexts, alpha \in Alphas :
            \E o \in spell_check(text, alpha) :
                /\ Query(o.sugg)
                /\ last' = [op |-> "spell_check", text |-> text, alpha |-> alpha,
                            path |-> o.path, replaced |-> o.replaced,
                            possible_sentences |-> o.possible_sentences, res |-> o.res]

\* Spell_Checker.add_error_tables(error_tables)
AddErrorTables ==
    /\ last = Idle
    /\ \E tables \in ErrorTables :
            /\ Budget(tables # error_tables)
            /\ error_tables' = tables
            /\ last' = [op |-> "add_error_tables", tables |-> tables, res |-> None]
            /\ UNCHANGED <<n, chars, lmTables>>

GetFirstEditProbability ==
    /\ last = Idle
    /\ \E candidate \in Words, original_word \in Words, alpha \in Alphas :
            /\ Query(suggestions)
            /\ last' = [op |-> "get_first_edit_probability", candidate |-> candidate,
                        original_word |-> original_word, alpha |-> alpha,
                        res |-> Float(get_first_edit_probability(candidate, original_word, alpha))]

\* Spell_Checker.insertion_probability, deletion_probability,
\* substitution_probability and transposition_probability, called directly
EstimateProbability ==
    /\ last = Idle
    /\ \E operation \in Operations, modified_word \in Words, original_word \in Words :
            /\ Query(suggestions)
            /\ last' = [op |-> "estimate", operation |-> operation,
                        modified_word |-> modified_word, original_word |-> original_word,
                        key |-> estimate(operation, modified_word, original_word).key,
                        res |-> estimate(operation, modified_word, original_word).res]

\* the call returns to its caller, which may then make the next call
Return ==
    /\ last # Idle
    /\ last' = Idle
    /\ UNCHANGED <<n, chars, lmTables, error_tables, changes>>

(***************************************************************************)
(* The program is single-threaded: calls follow one another.  Each         *)
(* specification explores the calls of one part of the program, on every   *)
(* language model that build_model and those calls can leave behind.       *)
(***************************************************************************)
\* the language model alone
NextLM ==
    \/ BuildModel
    \/ EvaluateText
    \/ Smooth
    \/ Generate
    \/ Return

SpecLM == Init /\ [][NextLM]_vars

\* candidate generation and the error model
NextWords ==
    \/ BuildModel
    \/ AddErrorTables
    \/ Edits1
    \/ GetCandidates
    \/ GetFirstEditProbability
    \/ EstimateProbability
    \/ Return

SpecWords == Init /\ [][NextWords]_vars

\* corrections, on a word-level language model
InitCheck == Init /\ chars = FALSE

NextCheck ==
    \/ BuildModel
    \/ AddErrorTables
    \/ GetCorrection
    \/ SpellCheck
    \/ Return

SpecCheck == InitCheck /\ [][NextCheck]_vars

(***************************************************************************)
(* The claims.  last is the call that has just returned; the tables are    *)
(* those it left behind.                                                   *)
(***************************************************************************)
\* C1: get_candidates(word) is a strict cascade over the vocabulary: {word}
\* if word is known; else the known members of edits1(word) if there are any;
\* else the known members of edits2(word) if there are any; else {word}.
C1_Cascade ==
    last.op = "get_candidates" =>
        LET w == last.word
            e1 == {e \in edits1(w) : e \in vocab}
            e2 == {e \in edits2(w) : e \in vocab}
        IN last.res.value = IF w \in vocab THEN {w}
                            ELSE IF e1 # {} THEN e1
                            ELSE IF e2 # {} THEN e2
                            ELSE {w}

\* an unknown word with no known word one edit away and one two edits away
C1_Edits2Reached ==
    /\ last.op = "get_candidates"
    /\ last.word \notin vocab
    /\ \A e \in edits1(last.word) : e \notin vocab
    /\ \E e \in edits2(last.word) : e \in vocab
    /\ last.res.value # {last.word}

\* C2 as stated: evaluate_text returns -inf exactly when the normalized token
\* sequence is empty, and a finite value for every non-empty one.
C2_FiniteUnlessEmpty ==
    last.op = "evaluate_text" =>
        IF tokenize(normalize_text(last.text)) = <<>>
        THEN last.res = NegInf
        ELSE last.res.kind = "log"

\* C3 as stated: in every reachable state of the language model, built or
\* not, smooth(ngram) returns (ngramCount + 1) / (contextTotal + |vocab|),
\* a value p with 0 < p <= 1.
C3_SmoothInUnitInterval ==
    last.op = "smooth" =>
        /\ last.res.kind = "float"
        /\ RLess(Zero, last.res.value)
        /\ ~RLess(One, last.res.value)
        /\ LET context == SubSeq(last.ngram, 1, Len(last.ngram) - 1)
               contextTotal == IF context \in DOMAIN suggestions
                               THEN Sum(suggestions[context]) ELSE 0
               ngramCount == IF last.ngram \in DOMAIN model_dict
                             THEN model_dict[last.ngram] ELSE 0
           IN last.res.value.p * (contextTotal + Cardinality(vocab))
                  = last.res.value.q * (ngramCount + 1)

\* C4 as stated: edits1(w) never contains w itself.
C4_NeverContainsWord ==
    last.op = "edits1" => last.word \notin last.res.value

\* C4, amended: edits1(w) is a set that contains w itself exactly when w has
\* a letter of the edit alphabet (replaced by itself) or two equal adjacent
\* characters (transposed); so it holds every non-empty lowercase word and
\* never the empty word.
C4_ContainsWordIff ==
    last.op = "edits1" =>
        (last.word \in last.res.value
            <=> \/ \E i \in 1..Len(last.word) : last.word[i] \in Range(letters)
                \/ \E i \in 1..(Len(last.word) - 1) : last.word[i] = last.word[i + 1])

\* edits1 of a non-empty word that holds the word itself
C4_SelfEdit ==
    /\ last.op = "edits1"
    /\ last.word # <<>>
    /\ last.word \in last.res.value

\* C5: for a text whose normalized tokens are all in the vocabulary and at
\* least as many as the model order, spell_check returns the normalized text
\* unchanged, whatever alpha is (so for alpha close to 1).
C5_KnownTextUnchanged ==
    last.op = "spell_check" =>
        LET normalized == normalize_text(last.text)
            tokens == split(normalized, <<>>)
        IN (Len(tokens) >= n /\ \A i \in 1..Len(tokens) : tokens[i] \in vocab)
               => last.res = Str(normalized)

\* a known text of two tokens or more that went through the sentence search
C5_KnownTextSearched ==
    /\ last.op = "spell_check"
    /\ last.path = "sentence"
    /\ LET tokens == split(normalize_text(last.text), <<>>)
       IN /\ Len(tokens) >= 2
          /\ Len(tokens) >= n
          /\ \A i \in 1..Len(tokens) : tokens[i] \in vocab
    /\ last.res = Str(normalize_text(last.text))

\* C6 as stated, for a length of 1 or more: whether the starting context is
\* supplied or sampled, generate never returns more than length tokens.
C6_AtMostLengthTokens ==
    (last.op = "generate" /\ last.length >= 1 /\ ~IsRaise(last.res)) =>
        Len(tokenize(last.res.value)) <= last.length

\* C7 as stated, on a model that has been built: no call other than
\* build_model changes a table of the language model, the keys of
\* suggestions included.
C7_OnlyBuildChanges ==
    [][(vocab # {} /\ last'.op # "build_model") => lmTables' = lmTables]_vars

\* C8 as stated, on a model that has been built: generate never fails.
C8_GenerateNeverFails ==
    (last.op = "generate" /\ vocab # {}) => ~IsRaise(last.res)

\* C9: without error tables (None or {}) and whenever candidate equals
\* original_word, get_first_edit_probability returns alpha; otherwise it
\* returns a value of at least 1e-8; it never raises.
C9_AlphaOrFloor ==
    last.op = "get_first_edit_probability" =>
        /\ last.res.kind = "float"
        /\ IF \/ error_tables = None
              \/ error_tables = Dict(EmptyDict)
              \/ last.candidate = last.original_word
           THEN last.res.value = last.alpha
           ELSE ~RLess(last.res.value, FLOOR)

\* with error tables, an edit whose table weight gives more than the floor
C9_TableHit ==
    /\ last.op = "get_first_edit_probability"
    /\ error_tables = Dict(SampleTables)
    /\ last.candidate # last.original_word
    /\ last.res.value # last.alpha
    /\ RLess(FLOOR, last.res.value)

\* C10 as stated: with at least as many tokens as the model order and an
\* out-of-vocabulary token among them, spell_check returns from the
\* out-of-vocabulary branch and never enters the whole-sentence search.
C10_SearchNeverEntered ==
    last.op = "spell_check" =>
        LET tokens == split(normalize_text(last.text), <<>>)
        IN (Len(tokens) >= n /\ \E i \in 1..Len(tokens) : tokens[i] \notin vocab)
               => last.path = "oov"

\* C10, amended: with at least as many tokens as the model order and an
\* out-of-vocabulary token among them, spell_check returns from the
\* out-of-vocabulary branch after one substitution, at the first such token
\* that has a vocabulary word within two edits; when none has, it falls
\* through into the whole-sentence search, whose only hypothesis is the
\* original sentence, and returns the normalized text unchanged.  On a model
\* that was never built the out-of-vocabulary branch raises
\* ZeroDivisionError.
C10_FallsThrough ==
    last.op = "spell_check" =>
        LET normalized == normalize_text(last.text)
            tokens == split(normalized, <<>>)
            near == {i \in 1..Len(tokens) :
                        /\ tokens[i] \notin vocab
                        /\ \E e \in edits1(tokens[i]) \cup edits2(tokens[i]) : e \in vocab}
        IN (Len(tokens) >= n /\ \E i \in 1..Len(tokens) : tokens[i] \notin vocab) =>
               IF vocab = {}
               THEN last.path = "oov" /\ last.res = Raise("ZeroDivisionError")
               ELSE IF near = {}
               THEN /\ last.path = "sentence"
                    /\ last.possible_sentences = {normalized}
                    /\ last.res = Str(normalized)
               ELSE /\ last.path = "oov"
                    /\ last.res.kind = "str"
                    /\ \E i \in near :
                          /\ \A j \in near : i <= j
                          /\ last.replaced = {i - 1}
                          /\ LET result == split(last.res.value, <<>>)
                             IN /\ Len(result) = Len(tokens)
                                /\ result[i] \in vocab
                                /\ \A j \in 1..Len(tokens) : j # i => result[j] = tokens[j]

\* an out-of-vocabulary token with no vocabulary word within two edits, on a
\* built model: the sentence search was entered and kept the text
C10_SearchEntered ==
    /\ last.op = "spell_check"
    /\ vocab # {}
    /\ last.path = "sentence"
    /\ \E i \in 1..Len(split(normalize_text(last.text), <<>>)) :
           split(normalize_text(last.text), <<>>)[i] \notin vocab
    /\ last.res = Str(normalize_text(last.text))

\* C11 as stated: for a text with at least as many tokens as the model order,
\* the result of spell_check has as many tokens as the normalized text and
\* differs from it at one position at most; when the out-of-vocabulary branch
\* changed a token, it is the leftmost out-of-vocabulary token whose
\* get_correction, with the preceding order-1 tokens at most as context,
\* differs from the token, and no other token is changed.
C11_AtMostOneChange ==
    last.op = "spell_check" =>
        LET tokens == split(normalize_text(last.text), <<>>)
        IN Len(tokens) >= n =>
               /\ last.res.kind = "str"
               /\ LET result == split(last.res.value, <<>>)
                      Differs(i) ==
                          \A o \in get_correction(
                                       suggestions, tokens[i],
                                       Join(<<" ">>, SubSeq(tokens, Max2(1, i - n + 1), i - 1)),
                                       last.alpha) :
                              o.res # Str(tokens[i])
                  IN /\ Len(result) = Len(tokens)
                     /\ Cardinality({i \in 1..Len(tokens) : result[i] # tokens[i]}) <= 1
                     /\ last.path = "oov" =>
                            \A i \in 1..Len(tokens) :
                                result[i] # tokens[i] <=>
                                    /\ tokens[i] \notin vocab
                                    /\ Differs(i)
                                    /\ \A j \in 1..(i - 1) :
                                           tokens[j] \notin vocab => ~Differs(j)

\* C12 as stated: every build_model call, on any text, adds to the count of
\* each n-gram g the number of windows equal to g in the padded sequence of
\* that text (order-1 start sentinels, its tokens, one end sentinel), and
\* afterwards model_dict[g] equals suggestions[g[:-1]][g[-1]].
C12_BuildAddsWindows ==
    [][last'.op = "build_model" =>
           LET windows == Windows(pad(tokenize(normalize_text(last'.text))), n)
           IN \A g \in Range(windows) \cup DOMAIN model_dict' :
                  /\ Get(model_dict', g)
                         = Get(model_dict, g)
                               + Cardinality({i \in 1..Len(windows) : windows[i] = g})
                  /\ Context(g) \in DOMAIN suggestions'
                  /\ Get(model_dict', g) = Get(suggestions'[Context(g)], LastToken(g))]_vars

\* C13: evaluate_text chooses the scoring rule once for the whole call: when
\* a token of the text is absent from freq_tokens, every window of the padded
\* sequence is scored with Laplace smooth, the windows of known tokens
\* included; otherwise every window is scored with the relative frequency
\* suggestions[context][token] / contextTotal, zero for an unseen context.  A
\* score of zero counts as 1e-8.  (With an empty vocabulary smooth divides by
\* zero and the call raises.)
C13_OneRulePerCall ==
    last.op = "evaluate_text" =>
        LET tokens == tokenize(normalize_text(last.text))
            windows == Windows(pad(tokens), n)
            anyAbsent == \E i \in 1..Len(tokens) : tokens[i] \notin DOMAIN freq_tokens
            ContextTotal(g) ==
                IF SubSeq(g, 1, Len(g) - 1) \in DOMAIN suggestions
                THEN Sum(suggestions[SubSeq(g, 1, Len(g) - 1)]) ELSE 0
            NextCount(g) ==
                IF SubSeq(g, 1, Len(g) - 1) \in DOMAIN suggestions
                THEN Get(suggestions[SubSeq(g, 1, Len(g) - 1)], g[Len(g)]) ELSE 0
            Score(g) ==
                IF anyAbsent
                THEN Rat(Get(model_dict, g) + 1, ContextTotal(g) + Cardinality(vocab), 0)
                ELSE IF ContextTotal(g) > 0 THEN Rat(NextCount(g), ContextTotal(g), 0)
                ELSE Zero
            total[k \in 0..Len(windows)] ==
                IF k = 0 THEN One
                ELSE RMul(total[k - 1],
                          IF Score(windows[k]).p > 0 THEN Score(windows[k]) ELSE FLOOR)
        IN tokens # <<>> =>
               IF anyAbsent /\ vocab = {}
               THEN last.res = Raise("ZeroDivisionError")
               ELSE last.res = Log(total[Len(windows)])

\* a text with an unknown token and a window of known tokens only, whose
\* relative frequency is positive, on a built model
C13_KnownWindowSmoothed ==
    /\ last.op = "evaluate_text"
    /\ last.res.kind = "log"
    /\ LET tokens == tokenize(normalize_text(last.text))
           windows == Windows(pad(tokens), n)
       IN /\ \E i \in 1..Len(tokens) : tokens[i] \notin DOMAIN freq_tokens
          /\ \E k \in 1..Len(windows) :
                 /\ \A i \in 1..n : windows[k][i] \in DOMAIN freq_tokens \cup {START, END}
                 /\ Get(model_dict, windows[k]) > 0

\* C14 as stated, on a model that has been built: for every order, order 1
\* included, each step of generate looks up the context made of exactly the
\* last order-1 tokens generated so far (the empty context for order 1), and
\* a call that returns has reached length tokens or a context without a
\* recorded continuation.
C14_LooksUpLastTokens ==
    (last.op = "generate" /\ vocab # {}) =>
        /\ \A k \in 1..Len(last.lookups) :
               LET text == SubSeq(last.generated, 1, Len(last.start) + k - 1)
               IN last.lookups[k] = SubSeq(text, Max2(1, Len(text) - n + 2), Len(text))
        /\ (~IsRaise(last.res) /\ last.lookups # <<>>) =>
               LET text == last.generated
                   context == SubSeq(text, Max2(1, Len(text) - n + 2), Len(text))
               IN \/ Len(text) >= last.length
                  \/ context \notin DOMAIN suggestions
                  \/ \A t \in DOMAIN suggestions[context] : suggestions[context][t] = 0

\* C15: what the claim calls applying one operation at index i (0-based) to
\* the original word so that it yields exactly the modified word.
C15_Applied(operation, modified_word, original_word, i) ==
    CASE operation = "deletion" ->
            /\ i < Len(modified_word)
            /\ SubSeq(modified_word, 1, i) \o SubSeq(modified_word, i + 2, Len(modified_word))
               = original_word
      [] operation = "insertion" ->
            /\ i < Len(original_word)
            /\ SubSeq(original_word, 1, i) \o SubSeq(original_word, i + 2, Len(original_word))
               = modified_word
      [] operation = "substitution" ->
            /\ i < Len(original_word)
            /\ modified_word[i + 1] # original_word[i + 1]
            /\ \A j \in 1..Len(original_word) :
                   j # i + 1 => modified_word[j] = original_word[j]
      [] OTHER ->
            /\ i + 1 < Len(original_word)
            /\ modified_word = [j \in 1..Len(original_word) |->
                                   IF j = i + 1 THEN original_word[i + 2]
                                   ELSE IF j = i + 2 THEN original_word[i + 1]
                                   ELSE original_word[j]]

\* C15 as stated, for a pair of words whose lengths fit the operation: an
\* estimator looks up the key of the first index at which the operation
\* turns the original word into the modified word; when there is no such
\* index it looks up nothing and returns 0 (1e-8 for transposition).
C15_FirstConsistentIndex ==
    (/\ last.op = "estimate"
     /\ LengthMatches(last.operation, last.modified_word, last.original_word)
     /\ HasErrorTables) =>
        LET S == {i \in 0..Len(last.original_word) :
                     C15_Applied(last.operation, last.modified_word, last.original_word, i)}
        IN IF S = {}
           THEN /\ last.key = None
                /\ last.res = Float(IF last.operation = "transposition" THEN FLOOR ELSE Zero)
           ELSE /\ last.key.kind = "key"
                /\ last.key.value = estimator_key(last.operation, last.modified_word,
                                                  last.original_word, MinOf(S))

\* C16: spell_check never alters a token that is in the vocabulary: a call
\* on a text with such a token returns, and the result has the tokens of the
\* normalized text with every in-vocabulary token unchanged at its position,
\* on the short-text path, the out-of-vocabulary path and the sentence search
\* alike and for every alpha.  When the sentence search is reached its only
\* hypothesis is the original sentence and the result is the normalized text.
C16_KnownTokensKept ==
    last.op = "spell_check" =>
        LET normalized == normalize_text(last.text)
            tokens == split(normalized, <<>>)
        IN /\ (\E i \in 1..Len(tokens) : tokens[i] \in vocab) =>
                  /\ ~IsRaise(last.res)
                  /\ Len(split(last.res.value, <<>>)) = Len(tokens)
                  /\ \A i \in 1..Len(tokens) :
                         tokens[i] \in vocab => split(last.res.value, <<>>)[i] = tokens[i]
           /\ last.path = "sentence" =>
                  /\ last.possible_sentences = {normalized}
                  /\ last.res = Str(normalized)

\* a call that replaced an out-of-vocabulary token and kept a token of the
\* vocabulary next to it
C16_ReplacedBesideKnown ==
    /\ last.op = "spell_check"
    /\ ~IsRaise(last.res)
    /\ last.replaced # {}
    /\ last.res # Str(normalize_text(last.text))
    /\ LET tokens == split(normalize_text(last.text), <<>>)
       IN \E i \in 1..Len(tokens) :
              /\ tokens[i] \in vocab
              /\ split(last.res.value, <<>>)[i] = tokens[i]

\* C17: whatever build_model calls have been made, no key of char_counts is
\* the start-of-word marker '#' and no key of char_pair contains it; so when
\* error tables are attached, insertion_probability and deletion_probability
\* return 0 whenever the operation is located at index 0 of the word,
\* whatever weight the error table holds for the '#'-prefixed key.
C17_MarkerNeverCounted ==
    /\ \A c \in DOMAIN char_counts : c # "#"
    /\ \A pair \in DOMAIN char_pair : pair[1] # "#" /\ pair[2] # "#"
    /\ (/\ last.op = "estimate"
        /\ last.operation \in {"insertion", "deletion"}
        /\ HasErrorTables
        /\ C15_Applied(last.operation, last.modified_word, last.original_word, 0)) =>
           last.res = Float(Zero)

\* an estimator located at index 0 on a built model, whose table holds a
\* positive weight for the '#'-prefixed key
C17_MarkerWeightIgnored ==
    /\ last.op = "estimate"
    /\ last.operation \in {"insertion", "deletion"}
    /\ DOMAIN char_counts # {}
    /\ last.key # None
    /\ last.key.value[1] = "#"
    /\ Get(error_tables.value[last.operation], last.key.value) > 0
    /\ last.res = Float(Zero)

====
